---- MODULE Spec2Model ----
(***************************************************************************)
(* A model of docker/manager.py: the Docker manager that starts and stops *)
(* a container and runs commands in it with "docker exec".                 *)
(*                                                                         *)
(* Text is modelled as a sequence of one-character strings, so that the    *)
(* regular expression, str.replace, str.split and the slicing of the code  *)
(* are computed character by character.  The line break is the character   *)
(* "\n"; the two characters backslash, n are <<"\\", "n">>.                *)
(***************************************************************************)
EXTENDS Integers, Sequences, FiniteSets, TLC

VARIABLES
    \* ---- Docker.run: recovery of the exit status from the output ----
    userOut,      \* what the user command wrote to its standard output
    innerCode,    \* the exit status of the user command inside the container
    rawOut,       \* result.out as returned by execute()
    rawCode,      \* result.return_code as returned by execute()
    runOut,       \* result.out of the result returned by run
    runCode,      \* result.return_code of the result returned by run
    runPc         \* "call" before run, "returned" or "raised" after it

runVars == <<userOut, innerCode, rawOut, rawCode, runOut, runCode, runPc>>

VARIABLES
    \* ---- Docker.run: the command line handed to execute() ----
    command,            \* the command argument of run
    working_directory,  \* the working_directory argument of run
    combine_outputs,    \* self.combine_outputs
    submitted,          \* the argument of the call of execute()
    cmdPc               \* "call" before run, "executed" after execute()

cmdVars == <<command, working_directory, combine_outputs, submitted, cmdPc>>

VARIABLES
    \* ---- Docker.list_directories ----
    kind,                    \* the container: what each name is in the directory
    dirExists,               \* the container: the directory at path exists
    path,                    \* the path argument
    include_trailing_slash,  \* the include_trailing_slash argument
    listResult,              \* the list returned
    listPc                   \* "call" before the call, "returned" after it

listVars == <<kind, dirExists, path, include_trailing_slash, listResult, listPc>>

VARIABLES
    \* ---- the life of the container: start, stop, with, wrap ----
    managers,   \* the Docker objects constructed so far, by object identity
    phase,      \* for each of them: "new", "started", "start_failed", "stopped"
    outcome,    \* what the caller observed of the last call
    scope,      \* the with statement that is running or has just ended
    pc          \* "idle", or "body" and "exit" inside a with statement

lifeVars == <<managers, phase, outcome, scope, pc>>

vars == <<runVars, cmdVars, listVars, lifeVars>>

----------------------------------------------------------------------------
\* Bounds

MaxStatus == 255        \* exit statuses range over 0..MaxStatus
MaxFrags == 2           \* the user output is made of at most MaxFrags fragments
MaxCmdLen == 3          \* the command argument has at most MaxCmdLen characters
MaxDirLen == 3          \* a path argument has at most MaxDirLen characters
MaxEntries == 3         \* a listed directory has at most MaxEntries entries
MaxManagers == 2        \* at most MaxManagers Docker objects are constructed

----------------------------------------------------------------------------
\* Text helpers (Python str operations)

NL == "\n"
BS == "\\"

DigitChars == <<"0", "1", "2", "3", "4", "5", "6", "7", "8", "9">>

IsDigit(c) == \E i \in 1..10 : DigitChars[i] = c

DigitVal(c) == (CHOOSE i \in 1..10 : DigitChars[i] = c) - 1

\* int(s) for a string of decimal digits
RECURSIVE ParseInt(_)
ParseInt(ds) ==
    IF ds = <<>> THEN 0
    ELSE 10 * ParseInt(SubSeq(ds, 1, Len(ds) - 1)) + DigitVal(ds[Len(ds)])

\* the decimal text the shell substitutes for $?
RECURSIVE FormatInt(_)
FormatInt(n) ==
    IF n < 10 THEN <<DigitChars[n + 1]>>
    ELSE FormatInt(n \div 10) \o <<DigitChars[(n % 10) + 1]>>

\* s[i:i+len(p)] == p, with i a 1-based index
StartsAt(s, i, p) ==
    /\ i >= 1
    /\ i + Len(p) - 1 <= Len(s)
    /\ SubSeq(s, i, i + Len(p) - 1) = p

\* s.startswith(p), s.endswith(p)
StartsWith(s, p) == StartsAt(s, 1, p)
EndsWith(s, p) == StartsAt(s, Len(s) - Len(p) + 1, p)

\* p in s
Contains(s, p) == \E i \in 1..(Len(s) + 1) : StartsAt(s, i, p)

\* s.replace(p, r) for a non-empty p: every non-overlapping occurrence,
\* scanning from the left, in a single pass
RECURSIVE ReplaceFrom(_, _, _, _)
ReplaceFrom(s, i, p, r) ==
    IF i > Len(s) THEN <<>>
    ELSE IF StartsAt(s, i, p) THEN r \o ReplaceFrom(s, i + Len(p), p, r)
    ELSE <<s[i]>> \o ReplaceFrom(s, i + 1, p, r)

\* a run that leaves the matched text in place
ReplaceNothing(s, p, r) == s

Replace(s, p, r) == ReplaceFrom(s, 1, p, r)

----------------------------------------------------------------------------
\* The sentinel

Marker == <<"-", "-", "r", "e", "t", "u", "r", "n", "-">>      \* --return-
Closer == <<"-", "-">>                                         \* --

\* what  echo "--return-$?--"  prints for status n, without the line break
Sentinel(n) == Marker \o FormatInt(n) \o Closer

\* the number of digit characters of s from index i on
RECURSIVE DigitRun(_, _)
DigitRun(s, i) ==
    IF i <= Len(s) /\ IsDigit(s[i]) THEN 1 + DigitRun(s, i + 1) ELSE 0

\* a pattern without the $: the sentinel matches wherever it is in the text
AtDollarAnywhere(s, i) == TRUE

\* $ of a pattern compiled without re.MULTILINE: position i (the index of
\* the next character) is the end of the text, or is just before a line
\* break that is the last character of the text
AtDollar(s, i) == i = Len(s) + 1 \/ (i = Len(s) /\ s[i] = NL)

\* --return-(\d+)--$ tried at index j: the index after the match, or 0
CoreEnd(s, j) ==
    IF ~StartsAt(s, j, Marker) THEN 0
    ELSE LET d == j + Len(Marker)
             k == DigitRun(s, d)
         IN IF k >= 1 /\ StartsAt(s, d + k, Closer) /\ AtDollar(s, d + k + 2)
            THEN d + k + 2 ELSE 0

\* (?:\\n)?--return-(\d+)--$ tried at index i; the optional group is greedy:
\* the two characters backslash, n are taken when the rest then matches
MatchAt(s, i) ==
    IF StartsAt(s, i, <<BS, "n">>) /\ CoreEnd(s, i + 2) > 0
    THEN [found |-> TRUE, start |-> i, core |-> i + 2, stop |-> CoreEnd(s, i + 2)]
    ELSE IF CoreEnd(s, i) > 0
    THEN [found |-> TRUE, start |-> i, core |-> i, stop |-> CoreEnd(s, i)]
    ELSE [found |-> FALSE, start |-> 0, core |-> 0, stop |-> 0]

\* re.search: the leftmost index at which the pattern matches
RECURSIVE SearchFrom(_, _)
SearchFrom(s, i) ==
    IF i > Len(s) THEN [found |-> FALSE, start |-> 0, core |-> 0, stop |-> 0]
    ELSE IF MatchAt(s, i).found THEN MatchAt(s, i)
    ELSE SearchFrom(s, i + 1)

ReSearch(s) == SearchFrom(s, 1)

Group0(s, m) == SubSeq(s, m.start, m.stop - 1)
Group1(s, m) == SubSeq(s, m.core + Len(Marker), m.stop - 3)

\* a run that parses the sentinel but keeps the status of the transport
ParseResultKeepCode(out, code) ==
    LET m == ReSearch(out)
    IN IF m.found
       THEN LET stripped == Replace(out, Group0(out, m), <<>>)
            IN [out |-> IF EndsWith(stripped, <<NL>>)
                        THEN SubSeq(stripped, 1, Len(stripped) - 1)
                        ELSE stripped,
                return_code |-> code]
       ELSE [out |-> out, return_code |-> code]

\* lines 78-84: the result run returns for the result execute returned
ParseResult(out, code) ==
    LET m == ReSearch(out)
    IN IF m.found
       THEN LET stripped == Replace(out, Group0(out, m), <<>>)
            IN [out |-> IF EndsWith(stripped, <<NL>>)
                        THEN SubSeq(stripped, 1, Len(stripped) - 1)
                        ELSE stripped,
                return_code |-> ParseInt(Group1(out, m))]
       ELSE [out |-> out, return_code |-> code]

----------------------------------------------------------------------------
\* The exec transport

\* what bash -c '<command> ;  echo "--return-$?--"' writes to its output
ShellOut(o, n) == o \o Sentinel(n) \o <<NL>>

\* result.out of execute(): the whole output, the output without its final
\* line break, or (a truncated stream) the output without the sentinel
Deliveries == {"whole", "trimmed", "truncated"}

ExecuteOut(o, n, d) ==
    CASE d = "whole" -> ShellOut(o, n)
      [] d = "trimmed" -> o \o Sentinel(n)
      [] d = "truncated" -> o

OuterCodes == {0, 1}

\* the fragments the user output is made of
Fragments ==
    { <<"a">>, <<NL>>, <<BS, "n">>, Marker, <<"0">>, Closer, Sentinel(0) }

RECURSIVE Texts(_)
Texts(n) ==
    IF n = 0 THEN { <<>> }
    ELSE Texts(n - 1) \cup { t \o f : t \in Texts(n - 1), f \in Fragments }

----------------------------------------------------------------------------
\* Docker.run, lines 71-84

\* the variables of a part of the model that a specification leaves unused
RunIdle ==
    /\ userOut = <<>>
    /\ innerCode = 0
    /\ rawOut = <<>>
    /\ rawCode = 0
    /\ runOut = <<>>
    /\ runCode = 0
    /\ runPc = "idle"

CmdIdle ==
    /\ command = <<>>
    /\ working_directory = <<>>
    /\ combine_outputs = FALSE
    /\ submitted = <<>>
    /\ cmdPc = "idle"

ListIdle ==
    /\ kind = <<>>
    /\ dirExists = FALSE
    /\ path = <<>>
    /\ include_trailing_slash = FALSE
    /\ listResult = <<>>
    /\ listPc = "idle"

NoOutcome ==
    [op |-> "none", self |-> 0, raised |-> "none", value |-> 0,
     issued |-> <<>>, before |-> "none"]

NoScope ==
    [kind |-> "none", self |-> 0, docker |-> 0, events |-> <<>>, exc |-> "none"]

LifeIdle ==
    /\ managers = <<>>
    /\ phase = <<>>
    /\ outcome = NoOutcome
    /\ scope = NoScope
    /\ pc = "off"

InitRun ==
    /\ CmdIdle
    /\ ListIdle
    /\ LifeIdle
    /\ userOut \in Texts(MaxFrags)
    /\ innerCode \in 0..MaxStatus
    /\ rawOut = <<>>
    /\ rawCode = 0
    /\ runOut = <<>>
    /\ runCode = 0
    /\ runPc = "call"

Run ==
    /\ runPc = "call"
    /\ \E d \in Deliveries, c \in OuterCodes :
         LET out == ExecuteOut(userOut, innerCode, d)
             res == ParseResult(out, c)
         IN /\ rawOut' = out
            /\ rawCode' = c
            /\ runOut' = res.out
            /\ runCode' = res.return_code
    /\ runPc' = "returned"
    /\ UNCHANGED <<userOut, innerCode>>
    /\ UNCHANGED <<cmdVars, listVars, lifeVars>>

NextRun == Run

SpecRun == InitRun /\ [][NextRun]_vars

----------------------------------------------------------------------------
\* Docker._get_working_directory, lines 224-236

SQ == "'"
DQ == "\""

Home == <<"~", "/">>                     \* ~/

GetWorkingDirectory(wd) ==
    IF StartsWith(wd, <<"/">>) \/ StartsWith(wd, Home) THEN wd
    ELSE Home \o wd

----------------------------------------------------------------------------
\* Docker.run, lines 66-76: the command line

\* self.container_name of the manager that runs the command
ContainerName == <<"d", "y", "n", "-", "0">>

CdText == <<"c", "d", " ">>                     \* "cd "
AndText == <<" ", "&", "&", " ">>       \* " && "
MergeText == <<" ", "2", ">", "&", "1">>    \* " 2>&1"

\* the text after {command} in the template of line 72:
\*  ;  echo "--return-$?--"
Emission ==
    <<" ", ";", " ", " ", "e", "c", "h", "o", " ", "\"", 
      "-", "-", "r", "e", "t", "u", "r", "n", "-", "$", "?", "-", "-", "\"">>

\* docker exec -i {container} bash -c '
ExecPrefix(name) ==
    <<"d", "o", "c", "k", "e", "r", " ", "e", "x", "e", "c", " ", "-", "i", " ">>
    \o name \o
    <<" ", "b", "a", "s", "h", " ", "-", "c", " ", "'">>

\* a run that hands the command over as it is
KeepQuotes(cmd) == cmd

\* line 67: command.replace('\'', '"')
NeutralizeQuotes(cmd) == Replace(cmd, <<SQ>>, <<DQ>>)

\* lines 68-70 and 74
CommandString(cmd, wd, combine) ==
    CdText \o wd \o AndText \o cmd \o (IF combine THEN MergeText ELSE <<>>)

\* lines 66-76: the argument of execute()
Invocation(name, cmd, wd, combine) ==
    ExecPrefix(name)
    \o CommandString(NeutralizeQuotes(cmd), GetWorkingDirectory(wd), combine)
    \o Emission \o <<SQ>>

CmdAlphabet == {SQ, DQ, "x", " "}
DirAlphabet == {"/", "~", SQ, "d"}

\* the texts of at most n characters of the alphabet
RECURSIVE Strings(_, _)
Strings(alphabet, n) ==
    IF n = 0 THEN { <<>> }
    ELSE Strings(alphabet, n - 1)
         \cup { t \o <<c>> : t \in Strings(alphabet, n - 1), c \in alphabet }

InitCmd ==
    /\ RunIdle
    /\ ListIdle
    /\ LifeIdle
    /\ command \in Strings(CmdAlphabet, MaxCmdLen)
    /\ working_directory \in Strings(DirAlphabet, MaxDirLen)
    /\ combine_outputs \in BOOLEAN
    /\ submitted = <<>>
    /\ cmdPc = "call"

RunSubmit ==
    /\ cmdPc = "call"
    /\ submitted' = Invocation(ContainerName, command, working_directory,
                               combine_outputs)
    /\ cmdPc' = "executed"
    /\ UNCHANGED <<command, working_directory, combine_outputs>>
    /\ UNCHANGED <<runVars, listVars, lifeVars>>

NextCmd == RunSubmit

SpecCmd == InitCmd /\ [][NextCmd]_vars

----------------------------------------------------------------------------
\* Docker.list_directories, lines 152-172, and Docker.directory_exist,
\* lines 123-131

\* s.split(sep)
RECURSIVE Split(_, _)
Split(s, sep) ==
    IF ~Contains(s, sep) THEN <<s>>
    ELSE LET i == CHOOSE k \in 1..Len(s) :
                     /\ StartsAt(s, k, sep)
                     /\ \A j \in 1..(k - 1) : ~StartsAt(s, j, sep)
         IN <<SubSeq(s, 1, i - 1)>> \o Split(SubSeq(s, i + Len(sep), Len(s)), sep)

\* os.path.join(a, b)
PathJoin(a, b) ==
    IF StartsWith(b, <<"/">>) THEN b
    ELSE IF a = <<>> \/ EndsWith(a, <<"/">>) THEN a \o b
    ELSE a \o <<"/">> \o b

\* s[:-1]
DropLast(s) == IF s = <<>> THEN <<>> ELSE SubSeq(s, 1, Len(s) - 1)

\* the names an entry of the listed directory can have, in the order of ls
EntryNames == <<"a", "b", "c", "e">>

\* the names of the subdirectories, in the order of ls
RECURSIVE SubdirsFrom(_, _)
SubdirsFrom(k, i) ==
    IF i > Len(k) THEN <<>>
    ELSE (IF k[i] = "dir" THEN <<EntryNames[i]>> ELSE <<>>) \o SubdirsFrom(k, i + 1)

Subdirs(k) == SubdirsFrom(k, 1)

\* the text of the directory that working directory wd names, without the
\* final separator
BaseOf(wd) == IF EndsWith(wd, <<"/">>) THEN DropLast(wd) ELSE wd

\* the container: the text p names a directory, for a listed directory
\* of base text b that exists (ex) and has entries k
NamesDirectory(p, b, ex, k) ==
    /\ ex
    /\ \/ p \in {b, b \o <<"/">>}
       \/ \E i \in 1..Len(k) :
            /\ k[i] = "dir"
            /\ p \in {b \o <<"/", EntryNames[i]>>, b \o <<"/", EntryNames[i], "/">>}

\* what ls writes to its error stream when */ matches nothing
LsError == <<"l", "s", ":", " ", "c", "a", "n", "n", "o", "t", " ", "a", "c", "c", "e", "s", "s", " ", "*", "/">>

\* the container: the standard output and the status of
\*   cd <wd> && ls -dm */ [2>&1]
RECURSIVE CommaJoin(_)
CommaJoin(names) ==
    IF names = <<>> THEN <<>>
    ELSE IF Len(names) = 1 THEN <<names[1], "/">>
    ELSE <<names[1], "/", ",", " ">> \o CommaJoin(Tail(names))

ShellLsDirs(ex, k, combine) ==
    IF ~ex THEN [out |-> <<>>, status |-> 1]
    ELSE IF Subdirs(k) = <<>>
    THEN [out |-> IF combine THEN LsError \o <<NL>> ELSE <<>>, status |-> 2]
    ELSE [out |-> CommaJoin(Subdirs(k)) \o <<NL>>, status |-> 0]

\* the container: the standard output and the status of  test -d <p>
ShellTestD(p, b, ex, k) ==
    [out |-> <<>>, status |-> IF NamesDirectory(p, b, ex, k) THEN 0 ELSE 1]

\* run, for a command with the given effect in the container: the output is
\* handed over without its final line break and the transport reports 0
RunShell(effect) ==
    ParseResult(ExecuteOut(effect.out, effect.status, "trimmed"), 0)

\* lines 130-131
DirectoryExist(p, b, ex, k) ==
    RunShell(ShellTestD(GetWorkingDirectory(p), b, ex, k)).return_code = 0

\* lines 164-170: the loop over the names of the listing
RECURSIVE CollectDirectories(_, _, _, _, _, _)
CollectDirectories(names, p, slash, b, ex, k) ==
    IF names = <<>> THEN <<>>
    ELSE LET file_path == Head(names)
             rest == CollectDirectories(Tail(names), p, slash, b, ex, k)
         IN IF DirectoryExist(PathJoin(p, file_path), b, ex, k)
            THEN <<IF slash THEN file_path ELSE DropLast(file_path)>> \o rest
            ELSE rest

\* lines 160-172
ListDirectories(p, slash, ex, k, combine) ==
    LET wd == GetWorkingDirectory(GetWorkingDirectory(p))
        listing == RunShell(ShellLsDirs(ex, k, combine)).out
    IN CollectDirectories(Split(listing, <<",", " ">>), p, slash, BaseOf(wd), ex, k)

ListPaths == { <<>>, <<"d">>, <<"d", "/">>, <<"/", "d">>, <<"~", "/", "d">> }

InitList ==
    /\ RunIdle
    /\ LifeIdle
    /\ command = <<>>
    /\ working_directory = <<>>
    /\ combine_outputs \in BOOLEAN
    /\ submitted = <<>>
    /\ cmdPc = "idle"
    /\ \E n \in 0..MaxEntries : kind \in [1..n -> {"file", "dir"}]
    /\ path \in ListPaths
    /\ dirExists \in BOOLEAN
    /\ path = <<>> => dirExists          \* the home directory exists
    /\ include_trailing_slash \in BOOLEAN
    /\ listResult = <<>>
    /\ listPc = "call"

ListDirectoriesCall ==
    /\ listPc = "call"
    /\ listResult' = ListDirectories(path, include_trailing_slash, dirExists,
                                     kind, combine_outputs)
    /\ listPc' = "returned"
    /\ UNCHANGED <<kind, dirExists, path, include_trailing_slash>>
    /\ UNCHANGED <<runVars, cmdVars, lifeVars>>

NextList == ListDirectoriesCall

SpecList == InitList /\ [][NextList]_vars

----------------------------------------------------------------------------
\* Docker.__init__, start, stop, __enter__, __exit__ and wrap

DefaultTimeout == 3600      \* line 19
StopPause == 2              \* line 200

\* the arguments of Docker(...)
Configs ==
    { [image |-> "ubuntu", timeout |-> DefaultTimeout, privilege |-> FALSE,
       combine_outputs |-> FALSE],
      [image |-> "python", timeout |-> 60, privilege |-> TRUE,
       combine_outputs |-> TRUE] }

\* lines 38-42; uuid.uuid4() is a value no other object has
NewManager(cfg, uuid) ==
    [container_name |-> <<"dyn", uuid>>, image |-> cfg.image,
     timeout |-> cfg.timeout, privilege |-> cfg.privilege,
     combine_outputs |-> cfg.combine_outputs]

\* the failures the body of a with statement can raise; an instance of
\* FalsyError is false as a truth value
BodyExceptions == {"ValueError", "FalsyError"}

Truthy(exc) == exc \notin {"none", "FalsyError"}

\* result.succeeded of execute(): the command succeeded or it did not;
\* execute() returns its result in both cases
Succeeded == BOOLEAN

\* lines 180-189: the command of start and the result execute() gave
RunCommand(m, ok) ==
    [op |-> "run", name |-> m.container_name, image |-> m.image,
     timeout |-> m.timeout, privileged |-> m.privilege, succeeded |-> ok]

\* a start that never reports the failure
StartRaisesNever(ok) == FALSE

\* lines 190-191
StartRaises(ok) == ~ok

\* lines 174-192: what one call of start issues, raises and returns
StartCall(self, m, ok) ==
    [issued |-> <<RunCommand(m, ok)>>,
     raised |-> IF StartRaises(ok) THEN "DockerUnavailableError" ELSE "none",
     value |-> IF StartRaises(ok) THEN 0 ELSE self]

\* a stop that removes the container only when the kill succeeded
StopCommandsRmAfterKill(name, killOk, rmOk) ==
    <<[op |-> "sleep", seconds |-> StopPause],
      [op |-> "kill", name |-> name, succeeded |-> killOk]>>
    \o (IF killOk THEN <<[op |-> "rm", name |-> name, succeeded |-> rmOk]>>
        ELSE <<>>)

\* lines 200-202
StopCommands(name, killOk, rmOk) ==
    <<[op |-> "sleep", seconds |-> StopPause],
      [op |-> "kill", name |-> name, succeeded |-> killOk],
      [op |-> "rm", name |-> name, succeeded |-> rmOk]>>

\* lines 194-203: what one call of stop issues, raises and returns
StopCall(self, m, killOk, rmOk) ==
    [issued |-> StopCommands(m.container_name, killOk, rmOk),
     raised |-> "none",
     value |-> self]

\* an __exit__ that stops the container only after a failure
ExitStopsOnFailure(exc) == exc # "none"

\* line 48: __exit__ calls stop whatever the way the body ended
ExitStops(exc) == TRUE

\* an __exit__ that reports the failure as handled
PropagatedNever(exc) == "none"

\* lines 49-50 and the with statement: the failure the caller of the with
\* statement observes for a body that raised exc ("none": it returned).
\* __exit__ raises exc_value when it is true and returns None otherwise, and
\* the with statement raises the failure of the body again for a None
Propagated(exc) ==
    IF exc = "none" THEN "none"
    ELSE IF Truthy(exc) THEN exc
    ELSE exc

InitLife ==
    /\ RunIdle
    /\ CmdIdle
    /\ ListIdle
    /\ managers = <<>>
    /\ phase = <<>>
    /\ outcome = NoOutcome
    /\ scope = NoScope
    /\ pc = "idle"

\* Docker(...), lines 19-42
Construct ==
    /\ pc = "idle"
    /\ Len(managers) < MaxManagers
    /\ \E cfg \in Configs :
         LET self == Len(managers) + 1
         IN /\ managers' = Append(managers, NewManager(cfg, self))
            /\ phase' = Append(phase, "new")
            /\ outcome' = [NoOutcome EXCEPT !.op = "init", !.self = self,
                                            !.value = self]
    /\ scope' = NoScope
    /\ UNCHANGED pc
    /\ UNCHANGED <<runVars, cmdVars, listVars>>

\* d.start() called directly, lines 174-192
Start ==
    /\ pc = "idle"
    /\ \E self \in 1..Len(managers), ok \in Succeeded :
         LET r == StartCall(self, managers[self], ok)
         IN /\ outcome' = [op |-> "start", self |-> self, raised |-> r.raised,
                           value |-> r.value, issued |-> r.issued,
                           before |-> phase[self]]
            /\ phase' = [phase EXCEPT ![self] =
                            IF ok THEN "started" ELSE "start_failed"]
    /\ scope' = NoScope
    /\ UNCHANGED <<managers, pc>>
    /\ UNCHANGED <<runVars, cmdVars, listVars>>

\* d.stop() called directly, lines 194-203
Stop ==
    /\ pc = "idle"
    /\ \E self \in 1..Len(managers), killOk \in Succeeded, rmOk \in Succeeded :
         LET r == StopCall(self, managers[self], killOk, rmOk)
         IN /\ outcome' = [op |-> "stop", self |-> self, raised |-> r.raised,
                           value |-> r.value, issued |-> r.issued,
                           before |-> phase[self]]
            /\ phase' = [phase EXCEPT ![self] = "stopped"]
    /\ scope' = NoScope
    /\ UNCHANGED <<managers, pc>>
    /\ UNCHANGED <<runVars, cmdVars, listVars>>

\* __enter__ of the with statement of kind k on object self of the objects
\* ms, lines 44-45: start, and the value of start bound by "as"
Enter(k, self, ms, ph) ==
    \E ok \in Succeeded :
       LET r == StartCall(self, ms[self], ok)
       IN /\ phase' = [ph EXCEPT ![self] =
                          IF ok THEN "started" ELSE "start_failed"]
          /\ IF r.raised # "none"
             THEN /\ scope' = [kind |-> k, self |-> self, docker |-> 0,
                               events |-> r.issued
                                   \o <<[op |-> "raise", exc |-> r.raised]>>,
                               exc |-> "none"]
                  /\ outcome' = [op |-> k, self |-> self, raised |-> r.raised,
                                 value |-> 0, issued |-> r.issued,
                                 before |-> ph[self]]
                  /\ pc' = "idle"
             ELSE /\ scope' = [kind |-> k, self |-> self, docker |-> r.value,
                               events |-> r.issued, exc |-> "none"]
                  /\ outcome' = [NoOutcome EXCEPT !.op = "enter", !.self = self]
                  /\ pc' = "body"

\* with d as docker: ... on an object constructed earlier
WithEnter ==
    /\ pc = "idle"
    /\ \E self \in 1..Len(managers) : Enter("with", self, managers, phase)
    /\ UNCHANGED managers
    /\ UNCHANGED <<runVars, cmdVars, listVars>>

\* a call of a function decorated with Docker.wrap(...), lines 215-216:
\* the wrapper constructs a Docker object and enters the with statement
WrapperCall ==
    /\ pc = "idle"
    /\ Len(managers) < MaxManagers
    /\ \E cfg \in Configs :
         LET self == Len(managers) + 1
             ms == Append(managers, NewManager(cfg, self))
         IN /\ managers' = ms
            /\ Enter("wrap", self, ms, Append(phase, "new"))
    /\ UNCHANGED <<runVars, cmdVars, listVars>>

\* the body of the with statement runs to its end, lines 217-218: for a
\* wrapper, the decorated function is called with kwargs['docker'] = docker
Body ==
    /\ pc = "body"
    /\ \E e \in {"none"} \cup BodyExceptions :
         scope' = [scope EXCEPT
                     !.events = Append(@, [op |-> "work", docker |-> scope.docker]),
                     !.exc = e]
    /\ pc' = "exit"
    /\ UNCHANGED <<managers, phase, outcome>>
    /\ UNCHANGED <<runVars, cmdVars, listVars>>

\* __exit__, lines 47-50, and the end of the with statement
Exit ==
    /\ pc = "exit"
    /\ \E killOk \in Succeeded, rmOk \in Succeeded :
         LET self == scope.self
             r == StopCall(self, managers[self], killOk, rmOk)
             stopped == IF ExitStops(scope.exc) THEN r.issued ELSE <<>>
             exc == Propagated(scope.exc)
             last == IF exc = "none" THEN [op |-> "return"]
                     ELSE [op |-> "raise", exc |-> exc]
         IN /\ scope' = [scope EXCEPT !.events = @ \o stopped \o <<last>>]
            /\ phase' = IF ExitStops(scope.exc)
                        THEN [phase EXCEPT ![self] = "stopped"] ELSE phase
            /\ outcome' = [op |-> scope.kind, self |-> self, raised |-> exc,
                           value |-> 0, issued |-> stopped,
                           before |-> phase[self]]
    /\ pc' = "idle"
    /\ UNCHANGED managers
    /\ UNCHANGED <<runVars, cmdVars, listVars>>

NextLife ==
    \/ Construct
    \/ Start
    \/ Stop
    \/ WithEnter
    \/ WrapperCall
    \/ Body
    \/ Exit

SpecLife == InitLife /\ [][NextLife]_vars

----------------------------------------------------------------------------
\* Properties of Docker.run (SpecRun)

\* t is <marker><one or more digits><closer> from index i to its end
SentinelFrom(t, i) ==
    /\ StartsAt(t, i, Marker)
    /\ EndsWith(t, Closer)
    /\ i + Len(Marker) <= Len(t) - Len(Closer)
    /\ \A q \in (i + Len(Marker))..(Len(t) - Len(Closer)) : IsDigit(t[q])

\* the text ends with a sentinel, or with a sentinel and one line break
TailIsSentinel(s) ==
    \/ \E i \in 1..Len(s) : SentinelFrom(s, i)
    \/ /\ EndsWith(s, <<NL>>)
       /\ \E i \in 1..Len(s) : SentinelFrom(SubSeq(s, 1, Len(s) - 1), i)

\* the text contains a substring of the form --return-<digits>--
HasSentinel(s) ==
    \E i \in 1..Len(s), j \in 1..Len(s) : i < j /\ SentinelFrom(SubSeq(s, 1, j), i)

\* the decimal texts of all the exit statuses
StatusTexts == [n \in 0..MaxStatus |-> FormatInt(n)]

\* the digits of the sentinels the text ends with (with or without one
\* final line break after the sentinel)
TailDigits(s) ==
    LET body == IF EndsWith(s, <<NL>>) THEN SubSeq(s, 1, Len(s) - 1) ELSE s
    IN { SubSeq(t, i + Len(Marker), Len(t) - Len(Closer)) :
           <<t, i>> \in { x \in {s, body} \X (1..Len(s)) : SentinelFrom(x[1], x[2]) } }

\* C1: whenever the raw output of the transport ends with the sentinel
\* --return-N--, for N in 0..255 and any status of the outer transport, the
\* result of run has return_code N.
C1_InnerStatusRecovered ==
    runPc = "returned" =>
        LET tail == TailDigits(rawOut)
        IN \A n \in 0..MaxStatus : StatusTexts[n] \in tail => runCode = n

C1_Witness ==
    /\ runPc = "returned"
    /\ innerCode = 255
    /\ rawCode = 0
    /\ userOut # <<>>
    /\ EndsWith(rawOut, Sentinel(255) \o <<NL>>)
    /\ runCode = 255

\* C2 as stated: whenever the sentinel is recovered from the tail of the raw
\* output, whatever the user command printed before it, the output of the
\* result contains no substring --return-<digits>--.
C2_Original_NoSentinelInOutput ==
    (runPc = "returned" /\ TailIsSentinel(rawOut)) => ~HasSentinel(runOut)

\* C2 amended: whenever the sentinel is recovered from the tail of the raw
\* output and the text the user command printed contains no occurrence of the
\* marker --return-, the output of the result contains no substring
\* --return-<digits>--.
C2_NoSentinelInOutput ==
    (runPc = "returned" /\ TailIsSentinel(rawOut) /\ ~Contains(userOut, Marker))
        => ~HasSentinel(runOut)

C2_Witness ==
    /\ runPc = "returned"
    /\ TailIsSentinel(rawOut)
    /\ ~Contains(userOut, Marker)
    /\ Contains(userOut, Closer)
    /\ Contains(userOut, <<"0">>)
    /\ runOut = userOut

\* C6 as stated: for a user command whose own output O does not end with a
\* line break and whose sentinel is recovered, the output of the result of
\* run is O exactly.
C6_OutputPreserved ==
    (/\ runPc = "returned"
     /\ ~EndsWith(userOut, <<NL>>)
     /\ rawOut \in {userOut \o Sentinel(innerCode),
                    userOut \o Sentinel(innerCode) \o <<NL>>})
        => runOut = userOut

\* C10: when no sentinel is found at the tail of the raw output, run returns
\* the result of the transport unchanged, without raising: the same output
\* text and the status the outer transport reported.
C10_NoSentinelUnchanged ==
    (runPc # "call" /\ ~TailIsSentinel(rawOut)) =>
        /\ runPc = "returned"
        /\ runOut = rawOut
        /\ runCode = rawCode

C10_Witness ==
    /\ runPc = "returned"
    /\ ~TailIsSentinel(rawOut)
    /\ Contains(rawOut, Marker)
    /\ EndsWith(rawOut, <<NL>>)
    /\ rawCode = 1
    /\ runCode = 1
    /\ runOut = rawOut

----------------------------------------------------------------------------
\* Properties of the command line (SpecCmd)

CountOf(s, c) == Cardinality({ i \in 1..Len(s) : s[i] = c })

\* the text between the quote that ExecPrefix opens and the last character
Payload(s) == SubSeq(s, Len(ExecPrefix(ContainerName)) + 1, Len(s) - 1)

WellFormed(s) ==
    /\ StartsWith(s, ExecPrefix(ContainerName))
    /\ s[Len(s)] = SQ
    /\ ~Contains(Payload(s), <<SQ>>)
    /\ EndsWith(Payload(s), Emission)

\* C7 as stated: for every command (with single quotes or not) and every
\* working_directory argument, the text between the two wrapping single
\* quotes of bash -c '...' contains no single quote and ends with the
\* sentinel emission.
C7_Original_WellFormed ==
    cmdPc = "executed" => WellFormed(submitted)

\* C7 amended: for every command (with single quotes or not) and every
\* working_directory argument that contains no single quote, the text
\* between the two wrapping single quotes of bash -c '...' contains no single
\* quote and ends with the sentinel emission.
C7_WellFormed ==
    (cmdPc = "executed" /\ ~Contains(working_directory, <<SQ>>))
        => /\ WellFormed(submitted)
           /\ CountOf(submitted, SQ) = 2

C7_Witness ==
    /\ cmdPc = "executed"
    /\ CountOf(command, SQ) = 2
    /\ working_directory = <<"d">>
    /\ combine_outputs
    /\ CountOf(submitted, SQ) = 2

----------------------------------------------------------------------------
\* Properties of list_directories (SpecList)

\* the names of the subdirectories with or without the trailing separator
RECURSIVE Decorated(_, _)
Decorated(names, slash) ==
    IF names = <<>> THEN <<>>
    ELSE <<IF slash THEN <<Head(names), "/">> ELSE <<Head(names)>>>>
         \o Decorated(Tail(names), slash)

\* C9: for every directory content, with no subdirectory at all included,
\* list_directories returns exactly the names of the subdirectories in the
\* order of the listing, with the trailing separator when
\* include_trailing_slash is true and without it otherwise, and every name
\* returned is non-empty.
C9_ExactlySubdirectories ==
    (listPc = "returned" /\ dirExists) =>
        /\ listResult = Decorated(Subdirs(kind), include_trailing_slash)
        /\ \A i \in 1..Len(listResult) : listResult[i] # <<>>

\* the case of the specification: one file a, one subdirectory b
C9_SpecExample ==
    (listPc = "returned" /\ dirExists /\ kind = <<"file", "dir">>) =>
        listResult = IF include_trailing_slash THEN << <<"b", "/">> >>
                     ELSE << <<"b">> >>

\* with at least one subdirectory the list is the list of the subdirectories
C9_NonEmptyCase ==
    (listPc = "returned" /\ dirExists /\ Subdirs(kind) # <<>>) =>
        listResult = Decorated(Subdirs(kind), include_trailing_slash)

----------------------------------------------------------------------------
\* Properties of start, stop, the with statement and wrap (SpecLife)

\* the operations of a sequence of events
Ops(ev) == [i \in 1..Len(ev) |-> ev[i].op]

CountOp(ev, o) == Cardinality({ i \in 1..Len(ev) : ev[i].op = o })

\* C4: start issues exactly one creation command, raises
\* DockerUnavailableError if and only if that command did not succeed, and
\* otherwise returns the same object, whose container name, image, timeout
\* and flags it leaves unchanged.
C4_StartOnceRaisesIffFailed ==
    /\ [](outcome.op = "start" =>
            LET self == outcome.self
                cmd == outcome.issued[1]
            IN /\ Len(outcome.issued) = 1
               /\ cmd.op = "run"
               /\ cmd.name = managers[self].container_name
               /\ cmd.image = managers[self].image
               /\ cmd.timeout = managers[self].timeout
               /\ cmd.privileged = managers[self].privilege
               /\ outcome.raised = "DockerUnavailableError" <=> ~cmd.succeeded
               /\ outcome.raised = "none" <=> cmd.succeeded
               /\ cmd.succeeded => outcome.value = self)
    /\ [][outcome'.op = "start" => managers' = managers]_vars

C4_Witness ==
    /\ outcome.op = "start"
    /\ outcome.before = "start_failed"
    /\ outcome.issued[1].succeeded
    /\ outcome.issued[1].privileged
    /\ outcome.value = outcome.self
    /\ outcome.self = 2

\* C5: in every state of the life of the container (never started, start
\* failed, started, already stopped) stop issues the kill command and then
\* the remove command for the container name of the object, the second
\* whatever the outcome of the first, raises nothing when a command reports
\* a failure, and returns the same object.
C5_StopBestEffort ==
    outcome.op = "stop" =>
        LET self == outcome.self
            cmds == SelectSeq(outcome.issued, LAMBDA e : e.op # "sleep")
        IN /\ outcome.before \in {"new", "start_failed", "started", "stopped"}
           /\ Ops(cmds) = <<"kill", "rm">>
           /\ cmds[1].name = managers[self].container_name
           /\ cmds[2].name = managers[self].container_name
           /\ outcome.raised = "none"
           /\ outcome.value = self

C5_Witness ==
    /\ outcome.op = "stop"
    /\ outcome.before = "start_failed"
    /\ Len(outcome.issued) = 3
    /\ ~outcome.issued[2].succeeded
    /\ ~outcome.issued[3].succeeded
    /\ outcome.value = outcome.self

\* C3: when start succeeded and the body of a with statement raises a
\* failure, stop is invoked exactly once and the caller observes that same
\* failure, raised after the kill and the remove of stop; until stop is
\* done the caller has observed nothing.
C3_WithReraisesAfterStop ==
    /\ (outcome.op = "with" /\ scope.exc # "none") =>
           /\ outcome.raised = scope.exc
           /\ Ops(scope.events) = <<"run", "work", "sleep", "kill", "rm", "raise">>
           /\ scope.events[1].succeeded
           /\ scope.events[4].name = managers[scope.self].container_name
           /\ scope.events[5].name = managers[scope.self].container_name
           /\ scope.events[6].exc = scope.exc
    /\ (scope.kind = "with" /\ pc = "exit") =>
           /\ outcome.raised = "none"
           /\ CountOp(scope.events, "kill") = 0

C3_Witness ==
    /\ outcome.op = "with"
    /\ scope.exc = "FalsyError"
    /\ outcome.raised = "FalsyError"
    /\ CountOp(scope.events, "kill") = 1
    /\ ~scope.events[4].succeeded

\* C8: in a call of a function decorated with Docker.wrap the events are
\* start, work function, stop: the function is called only after start
\* succeeded on an object constructed for this call and gets that object as
\* docker; stop is invoked exactly once, after the function returned or
\* raised; when start fails neither the function nor stop is invoked.
C8_WrapOrder ==
    /\ [](scope.kind = "wrap" =>
            LET ev == scope.events
            IN /\ ev[1].op = "run"
               /\ ev[1].name = managers[scope.self].container_name
               /\ pc = "body" => (Ops(ev) = <<"run">> /\ ev[1].succeeded)
               /\ pc = "exit" => (Ops(ev) = <<"run", "work">> /\ ev[1].succeeded)
               /\ pc = "idle" =>
                    IF ev[1].succeeded
                    THEN /\ Ops(ev) \in
                              { <<"run", "work", "sleep", "kill", "rm", last>> :
                                  last \in {"return", "raise"} }
                         /\ ev[4].name = managers[scope.self].container_name
                         /\ ev[5].name = managers[scope.self].container_name
                         /\ ev[6].op = "raise" <=> scope.exc # "none"
                    ELSE /\ Ops(ev) = <<"run", "raise">>
                         /\ ev[2].exc = "DockerUnavailableError"
               /\ \A i \in 1..Len(ev) :
                    ev[i].op = "work" => ev[i].docker = scope.self)
    /\ [][(pc = "idle" /\ pc' = "body" /\ scope'.kind = "wrap") =>
            /\ scope'.self \notin DOMAIN managers
            /\ scope'.self \in DOMAIN managers'
            /\ phase'[scope'.self] = "started"]_vars

C8_Witness ==
    /\ outcome.op = "wrap"
    /\ scope.self = 2
    /\ scope.exc = "none"
    /\ Len(scope.events) = 6
    /\ scope.events[2].docker = 2
    /\ scope.events[6].op = "return"

====
